---- MODULE Spec2Model ----
(***************************************************************************)
(* Tool-orchestration runtime of Smart-Canvas (backend/api/orchestrator):  *)
(* the sliding-window RateLimiter, the retry wrappers, the content-intent  *)
(* classifier and the /chat/stream generator, each as a state machine.     *)
(***************************************************************************)
EXTENDS Integers, Sequences, FiniteSets, TLC

(***************************************************************************)
(* Bounds of the model                                                     *)
(***************************************************************************)
\* last value of the wall clock (time.time(), in whole seconds)
MaxClock == 5
\* largest configured RateLimiter.max_requests
MaxRequestsBound == 2
\* largest configured RateLimiter.time_window
MaxWindow == 3

\* largest max_retries given to a retry wrapper
MaxRetriesBound == 3
\* largest base_delay / retry_delay
MaxBaseDelay == 2
\* largest backoff_factor
MaxFactor == 2
\* largest max_delay
MaxDelayBound == 4
\* most words of an enumerated message
MaxWords == 3
MaxToolCalls == 2

Callers == {"c1", "c2"}
\* the keys passed to acquire: every call in the repository uses the default
Keys == {"default"}

VARIABLES
    \* ---- RateLimiter (services/jina_ai_service.py) ----
    max_requests,   \* RateLimiter.max_requests
    time_window,    \* RateLimiter.time_window
    requests,       \* RateLimiter.requests: key -> list of timestamps
    clock,          \* time.time()
    rl_pc,          \* per caller: position inside acquire
    rl_key,         \* per caller: argument key of the running acquire
    rl_now,         \* per caller: local variable now of the running acquire
    rl_wake,        \* per caller: earliest time asyncio.sleep(wait_time) returns
    rl_hist,        \* per caller: what the last acquire observed (history)
    \* ---- retry wrappers (routes.py, jina_ai_service.py, agent.py) ----
    rt_wrapper,     \* which wrapper runs
    rt_params,      \* its arguments (max_retries, base_delay, ...)
    rt_pc,          \* position: "attempt", "sleeping", "returned", "raised"
    attempt,        \* loop variable of the for loops
    retry_count,    \* _execute_with_retry.retry_count
    last_exception, \* local last_exception
    metadata,       \* last ToolExecutionMetadata built by _execute_with_retry
    rt_raised,      \* the exception that left the wrapper
    rt_how,         \* which statement ended the wrapper
    rt_calls,       \* number of invocations of the operation (history)
    rt_sleeps,      \* the delays passed to asyncio.sleep, in order (history)
    rt_seen,        \* classes of the errors the operation raised (history)
    rt_last,        \* outcome of the last invocation (history)
    \* ---- ContentDetectionTool (tools/content_detection_tool.py) ----
    message,        \* argument message, as the list of its words
    cd_pc,          \* "call" before detect_content_intent, "done" after
    cd_result,      \* the result dictionary it returns
    \* ---- /chat/stream (routes.py) and MetatronAgent.run (agent.py) ----
    request,        \* the ChatRequest
    st_message,     \* local message of chat_with_orchestrator_stream
    st_pc,          \* position inside the route and its generate_stream
    chunks,         \* what generate_stream has yielded so far, in order
    result,         \* what agent.run returned to the route
    llm_calls,      \* number of self.agent.run calls (history)
    llm_outcome,    \* what the last self.agent.run call did (history)
    prepared_tools, \* local prepared_tools of MetatronAgent.run
    st_exc,         \* the exception the route's except clause caught
    http,           \* the HTTP response of /chat
    ch_attempt,     \* loop variable attempt of retry_with_backoff in /chat
    \* ---- callers of RateLimiter.acquire (JinaAIService) ----
    admissions,     \* times at which the latest acquire calls returned (history)
    acquires,       \* acquire calls of the running _make_request_with_retry
    \* ---- the deep_research tool (agent.py, orchestrator_tools_main.py) ----
    dr_pc,          \* "ready" between tool calls, "running" inside one
    dr_args,        \* the arguments of the running tool call
    dr_op,          \* what the last call of research_operation did (history)
    dr_result,      \* what the tool returned to the model
    dr_calls        \* number of tool calls so far (history)

rlVars == <<max_requests, time_window, requests, clock, rl_pc, rl_key, rl_now,
            rl_wake, rl_hist>>

rtVars == <<rt_wrapper, rt_params, rt_pc, attempt, retry_count, last_exception,
            metadata, rt_raised, rt_how, rt_calls, rt_sleeps, rt_seen, rt_last>>

cdVars == <<message, cd_pc, cd_result>>

stVars == <<request, st_message, st_pc, chunks, result, llm_calls, llm_outcome,
            prepared_tools, st_exc, http, ch_attempt>>

jrVars == <<admissions, acquires>>

drVars == <<dr_pc, dr_args, dr_op, dr_result, dr_calls>>

vars == <<rlVars, rtVars, cdVars, stVars, jrVars, drVars>>

\* the variables of the other components
notRateLimiter == <<rtVars, cdVars, stVars, jrVars, drVars>>
notRetry == <<rlVars, cdVars, stVars, jrVars, drVars>>
notDetect == <<rlVars, rtVars, stVars, jrVars, drVars>>
notStream == <<rlVars, rtVars, cdVars, jrVars, drVars>>

(***************************************************************************)
(* Helpers                                                                 *)
(***************************************************************************)
RECURSIVE SeqMin(_)
\* Python min() of a non-empty list
SeqMin(s) ==
    IF Len(s) = 1 THEN s[1]
    ELSE LET m == SeqMin(Tail(s)) IN IF s[1] <= m THEN s[1] ELSE m

\* [req_time for req_time in l if now - req_time < time_window]
PurgeMutClear(l, now, tw) == <<>>
Purge(l, now, tw) == SelectSeq(l, LAMBDA req_time : now - req_time < tw)

\* wait_time = self.time_window - (now - oldest_request)
WaitTimeMutNewest(l, now, tw) == tw - (now - l[Len(l)]) - 1
WaitTime(l, now, tw) == tw - (now - SeqMin(l))

NoHist == [entered |-> FALSE]

None == [cls |-> "None"]

\* the retry wrappers are not running
RetryIdle ==
    /\ rt_wrapper = "none"
    /\ rt_params = [max_retries |-> 0]
    /\ rt_pc = "idle"
    /\ attempt = 0
    /\ retry_count = 0
    /\ last_exception = None
    /\ metadata = None
    /\ rt_raised = None
    /\ rt_how = "running"
    /\ rt_calls = 0
    /\ rt_sleeps = <<>>
    /\ rt_seen = {}
    /\ rt_last = None

\* detect_content_intent is not called
DetectIdle ==
    /\ message = <<>>
    /\ cd_pc = "idle"
    /\ cd_result = None

\* no request is being served
StreamIdle ==
    /\ request = None
    /\ st_message = None
    /\ st_pc = "idle"
    /\ chunks = <<>>
    /\ result = None
    /\ llm_calls = 0
    /\ llm_outcome = None
    /\ prepared_tools = <<>>
    /\ st_exc = None
    /\ http = None
    /\ ch_attempt = 0

\* no caller of acquire is followed
JinaIdle ==
    /\ admissions = <<>>
    /\ acquires = 0

\* the deep_research tool is not called
DeepResearchIdle ==
    /\ dr_pc = "idle"
    /\ dr_args = None
    /\ dr_op = None
    /\ dr_result = None
    /\ dr_calls = 0

\* no acquire is running and the limiter is not used
RateLimiterIdle ==
    /\ max_requests = 1
    /\ time_window = 1
    /\ requests = [k \in Keys |-> <<>>]
    /\ clock = 0
    /\ rl_pc = [c \in Callers |-> "ready"]
    /\ rl_key = [c \in Callers |-> "default"]
    /\ rl_now = [c \in Callers |-> 0]
    /\ rl_wake = [c \in Callers |-> 0]
    /\ rl_hist = [c \in Callers |-> NoHist]

(***************************************************************************)
(* RateLimiter                                                             *)
(***************************************************************************)
InitRateLimiter ==
    /\ max_requests \in 0..MaxRequestsBound
    /\ time_window \in 1..MaxWindow
    /\ requests = [k \in Keys |-> <<>>]
    /\ clock = 0
    /\ rl_pc = [c \in Callers |-> "ready"]
    /\ rl_key = [c \in Callers |-> "default"]
    /\ rl_now = [c \in Callers |-> 0]
    /\ rl_wake = [c \in Callers |-> 0]
    /\ rl_hist = [c \in Callers |-> NoHist]
    /\ RetryIdle
    /\ DetectIdle
    /\ StreamIdle
    /\ JinaIdle
    /\ DeepResearchIdle

\* acquire(key) from its entry up to its first suspension point: the purge,
\* the capacity check and either the sleep or the append (lines 80-99)
AcquireEnter(c, key) ==
    /\ rl_pc[c] = "ready"
    /\ LET now == clock
           kept == Purge(requests[key], now, time_window)
           full == Len(kept) >= max_requests
           hist == [entered |-> TRUE, key |-> key, enteredAt |-> now,
                    full |-> full /\ kept # <<>>,
                    oldest |-> IF kept # <<>> THEN SeqMin(kept) ELSE 0,
                    slept |-> FALSE, returnedAt |-> 0, lenAtReturn |-> 0]
       IN
       /\ rl_key' = [rl_key EXCEPT ![c] = key]
       /\ rl_now' = [rl_now EXCEPT ![c] = now]
       /\ IF full /\ kept = <<>>
          THEN \* min() of an empty sequence: ValueError leaves acquire
               /\ requests' = [requests EXCEPT ![key] = kept]
               /\ rl_pc' = [rl_pc EXCEPT ![c] = "raised"]
               /\ rl_hist' = [rl_hist EXCEPT ![c] = hist]
               /\ UNCHANGED rl_wake
          ELSE IF full /\ WaitTime(kept, now, time_window) > 0
          THEN \* await asyncio.sleep(wait_time)
               /\ requests' = [requests EXCEPT ![key] = kept]
               /\ rl_pc' = [rl_pc EXCEPT ![c] = "sleeping"]
               /\ rl_wake' = [rl_wake EXCEPT
                                ![c] = now + WaitTime(kept, now, time_window)]
               /\ rl_hist' = [rl_hist EXCEPT ![c] = [hist EXCEPT !.slept = TRUE]]
          ELSE \* self.requests[key].append(now)
               /\ requests' = [requests EXCEPT ![key] = Append(kept, now)]
               /\ rl_pc' = [rl_pc EXCEPT ![c] = "returned"]
               /\ rl_hist' = [rl_hist EXCEPT ![c] =
                                [hist EXCEPT !.returnedAt = clock,
                                             !.lenAtReturn = Len(kept) + 1]]
               /\ UNCHANGED rl_wake
    /\ UNCHANGED <<max_requests, time_window, clock>>

\* asyncio.sleep(wait_time) returns, acquire appends its now and returns
AcquireWake(c) ==
    /\ rl_pc[c] = "sleeping"
    /\ clock >= rl_wake[c]
    /\ requests' = [requests EXCEPT
                      ![rl_key[c]] = Append(requests[rl_key[c]], rl_now[c])]
    /\ rl_pc' = [rl_pc EXCEPT ![c] = "returned"]
    /\ rl_hist' = [rl_hist EXCEPT ![c] =
                     [@ EXCEPT !.returnedAt = clock,
                               !.lenAtReturn = Len(requests[rl_key[c]]) + 1]]
    /\ UNCHANGED <<max_requests, time_window, clock, rl_key, rl_now, rl_wake>>

\* the caller of acquire goes on (in _make_request_with_retry: to the HTTP
\* request); the finished call's locals are gone
Continue(c) ==
    /\ rl_pc[c] = "returned"
    /\ rl_pc' = [rl_pc EXCEPT ![c] = "ready"]
    /\ rl_key' = [rl_key EXCEPT ![c] = "default"]
    /\ rl_now' = [rl_now EXCEPT ![c] = 0]
    /\ rl_wake' = [rl_wake EXCEPT ![c] = 0]
    /\ rl_hist' = [rl_hist EXCEPT ![c] = NoHist]
    /\ UNCHANGED <<max_requests, time_window, requests, clock>>

\* time passes
Tick ==
    /\ clock < MaxClock
    /\ clock' = clock + 1
    /\ UNCHANGED <<max_requests, time_window, requests, rl_pc, rl_key, rl_now,
                   rl_wake, rl_hist>>

NextRateLimiter ==
    \/ (\E c \in Callers, key \in Keys : AcquireEnter(c, key)) /\ UNCHANGED notRateLimiter
    \/ (\E c \in Callers : AcquireWake(c)) /\ UNCHANGED notRateLimiter
    \/ (\E c \in Callers : Continue(c)) /\ UNCHANGED notRateLimiter
    \/ Tick /\ UNCHANGED notRateLimiter

SpecRateLimiter == InitRateLimiter /\ [][NextRateLimiter]_vars

(***************************************************************************)
(* Claims about RateLimiter                                                *)
(***************************************************************************)
\* C1: immediately after an acquire(key) call returns, the number of
\* timestamps stored for that key is at most max_requests.
C1_WindowAtMostMaxAfterAcquire ==
    \A c \in Callers :
        rl_pc[c] = "returned" => rl_hist[c].lenAtReturn <= max_requests

\* C2: an acquire entered while the key's window holds max_requests (or
\* more) unexpired timestamps does not return before time_window seconds
\* have elapsed since the oldest of those timestamps.
C2_FullWindowWaitsOutOldest ==
    \A c \in Callers :
        (rl_pc[c] = "returned" /\ rl_hist[c].full)
            => rl_hist[c].returnedAt >= rl_hist[c].oldest + time_window

\* an acquire that found the window full has slept and returned
C2_Witness ==
    \E c \in Callers :
        /\ rl_pc[c] = "returned"
        /\ rl_hist[c].full
        /\ rl_hist[c].slept
        /\ max_requests = 2
        /\ rl_hist[c].returnedAt > rl_hist[c].enteredAt

\* C3: every acquire call returns and never raises an exception, for any
\* key, any window contents and any configured max_requests and time_window
\* (the safety half: no acquire ever leaves by an exception).
C3_AcquireNeverRaises ==
    \A c \in Callers : rl_pc[c] # "raised"

(***************************************************************************)
(* Retry wrappers: retry_with_backoff (routes.py), retry_jina_request      *)
(* (jina_ai_service.py) and MetatronAgent._execute_with_retry (agent.py)   *)
(***************************************************************************)
\* Exception classes as a wrapper sees them: its own marker classes
\* (RetryableError / JinaRetryableError, NonRetryableError /
\* JinaNonRetryableError) and any other exception
ErrClasses == {"Retryable", "NonRetryable", "Other"}

\* the words that may occur in str(e).lower()
MsgWords == {"timeout", "500"}

\* the exceptions an operation may raise
Errors == [cls : ErrClasses, msg : SUBSET MsgWords]

Success == [cls |-> "Success"]

\* what one invocation of the operation does
Outcomes == Errors \cup {Success}

\* the keyword list of retry_jina_request
JinaKeywords ==
    {"timeout", "connection", "network", "temporary", "429", "502", "503", "504"}

\* any(keyword in error_str for keyword in [...])
HasKeyword(msg, keywords) == msg \cap keywords # {}

ToolNames == {"deep_research"}

RECURSIVE Pow(_, _)
\* b ** n
Pow(b, n) == IF n = 0 THEN 1 ELSE b * Pow(b, n - 1)

Min2(a, b) == IF a <= b THEN a ELSE b

\* delay = min(base_delay * (backoff_factor ** attempt), max_delay)
BackoffDelayMutNextAttempt(base_delay, backoff_factor, att, max_delay) ==
    Min2(base_delay * Pow(backoff_factor, att + 1), max_delay)
BackoffDelay(base_delay, backoff_factor, att, max_delay) ==
    Min2(base_delay * Pow(backoff_factor, att), max_delay)

\* except NonRetryableError / except JinaNonRetryableError
IsNonRetryableMutNever(e) == FALSE
IsNonRetryable(e) == e.cls = "NonRetryable"

\* retry_count of the failure metadata: retry_count - 1
FinalRetryCountMutNoDecrement(rc) == rc
FinalRetryCount(rc) == rc - 1

\* ModelRetry(f"Tool {tool_name} failed after {max_retries} retries: {str(last_exception)}")
ModelRetry(tool_name, max_retries, e) ==
    [cls |-> "ModelRetry", tool_name |-> tool_name, retries |-> max_retries,
     msg |-> e.msg, context |-> e]

\* JinaNonRetryableError(f"Jina AI request failed: {str(e)}")
JinaFailed(e) ==
    [cls |-> "NonRetryable", msg |-> e.msg \cup {"jina ai request failed"},
     context |-> e]

\* _create_tool_metadata(tool_name, execution_time, success, retry_count)
CreateToolMetadataMutCountsAttempt(tool_name, success, rc) ==
    [cls |-> "ToolExecutionMetadata", tool_name |-> tool_name,
     success |-> success, retry_count |-> rc + 1]
CreateToolMetadata(tool_name, success, rc) ==
    [cls |-> "ToolExecutionMetadata", tool_name |-> tool_name,
     success |-> success, retry_count |-> rc]

BackoffParams ==
    [max_retries : 0..MaxRetriesBound, base_delay : 1..MaxBaseDelay,
     max_delay : 1..MaxDelayBound, backoff_factor : 1..MaxFactor]

ExecuteParams ==
    [max_retries : 0..MaxRetriesBound, retry_delay : 1..MaxBaseDelay,
     tool_name : ToolNames]

InitRetry ==
    /\ rt_wrapper \in {"retry_with_backoff", "retry_jina_request",
                       "_execute_with_retry"}
    /\ rt_params \in IF rt_wrapper = "_execute_with_retry"
                     THEN ExecuteParams ELSE BackoffParams
    /\ rt_pc = "attempt"
    /\ attempt = 0
    /\ retry_count = 0
    /\ last_exception = None
    /\ metadata = None
    /\ rt_raised = None
    /\ rt_how = "running"
    /\ rt_calls = 0
    /\ rt_sleeps = <<>>
    /\ rt_seen = {}
    /\ rt_last = None
    /\ RateLimiterIdle
    /\ DetectIdle
    /\ StreamIdle
    /\ JinaIdle
    /\ DeepResearchIdle

\* history of one invocation of the operation with outcome o
Invoked(o) ==
    /\ rt_calls' = rt_calls + 1
    /\ rt_last' = o
    /\ rt_seen' = IF o = Success THEN rt_seen ELSE rt_seen \cup {o.cls}

\* the wrapper returns the operation's value
Return ==
    /\ rt_pc' = "returned"
    /\ rt_how' = "return"
    /\ UNCHANGED <<rt_raised, rt_sleeps>>

\* the wrapper raises e
Raise(e, how) ==
    /\ rt_pc' = "raised"
    /\ rt_raised' = e
    /\ rt_how' = how
    /\ UNCHANGED rt_sleeps

\* await asyncio.sleep(delay)
Sleep(delay) ==
    /\ rt_pc' = "sleeping"
    /\ rt_sleeps' = Append(rt_sleeps, delay)
    /\ UNCHANGED <<rt_raised, rt_how>>

\* one iteration of the for loop of retry_with_backoff (lines 69-94)
RetryWithBackoffAttempt(o) ==
    /\ rt_wrapper = "retry_with_backoff"
    /\ rt_pc = "attempt"
    /\ Invoked(o)
    /\ IF o = Success
       THEN Return /\ UNCHANGED last_exception
       ELSE IF IsNonRetryable(o)
       THEN \* except NonRetryableError: raise
            Raise(o, "nonretryable") /\ UNCHANGED last_exception
       ELSE /\ last_exception' = o
            /\ IF attempt = rt_params.max_retries
               THEN \* break; raise last_exception
                    Raise(o, "exhausted")
               ELSE Sleep(BackoffDelay(rt_params.base_delay,
                                       rt_params.backoff_factor, attempt,
                                       rt_params.max_delay))
    /\ UNCHANGED <<rt_wrapper, rt_params, attempt, retry_count, metadata>>

\* one iteration of the for loop of retry_jina_request (lines 44-65)
RetryJinaRequestAttempt(o) ==
    /\ rt_wrapper = "retry_jina_request"
    /\ rt_pc = "attempt"
    /\ Invoked(o)
    /\ IF o = Success
       THEN Return /\ UNCHANGED last_exception
       ELSE IF IsNonRetryable(o)
       THEN \* except JinaNonRetryableError: raise
            Raise(o, "nonretryable") /\ UNCHANGED last_exception
       ELSE /\ last_exception' = o
            /\ IF HasKeyword(o.msg, JinaKeywords)
                    /\ attempt < rt_params.max_retries
               THEN Sleep(BackoffDelay(rt_params.base_delay,
                                       rt_params.backoff_factor, attempt,
                                       rt_params.max_delay))
               ELSE \* raise JinaNonRetryableError(...)
                    Raise(JinaFailed(o),
                          IF HasKeyword(o.msg, JinaKeywords)
                          THEN "exhausted" ELSE "no keyword")
    /\ UNCHANGED <<rt_wrapper, rt_params, attempt, retry_count, metadata>>

\* asyncio.sleep returns in a for loop: continue with the next attempt
ForLoopContinue ==
    /\ rt_wrapper \in {"retry_with_backoff", "retry_jina_request"}
    /\ rt_pc = "sleeping"
    /\ rt_pc' = "attempt"
    /\ attempt' = attempt + 1
    /\ UNCHANGED <<rt_wrapper, rt_params, retry_count, last_exception, metadata,
                   rt_raised, rt_how, rt_calls, rt_sleeps, rt_seen, rt_last>>

\* one iteration of the while loop of _execute_with_retry (lines 228-263)
ExecuteWithRetryAttempt(o) ==
    /\ rt_wrapper = "_execute_with_retry"
    /\ rt_pc = "attempt"
    /\ retry_count <= rt_params.max_retries
    /\ Invoked(o)
    /\ IF o = Success
       THEN /\ metadata' = CreateToolMetadata(rt_params.tool_name, TRUE,
                                              retry_count)
            /\ Return
            /\ UNCHANGED <<last_exception, retry_count>>
       ELSE /\ last_exception' = o
            /\ retry_count' = retry_count + 1
            /\ IF retry_count + 1 <= rt_params.max_retries
               THEN /\ Sleep(rt_params.retry_delay * (retry_count + 1))
                    /\ UNCHANGED metadata
               ELSE /\ metadata' = CreateToolMetadata(rt_params.tool_name, FALSE,
                                        FinalRetryCount(retry_count + 1))
                    /\ Raise(ModelRetry(rt_params.tool_name,
                                        rt_params.max_retries, o), "exhausted")
    /\ UNCHANGED <<rt_wrapper, rt_params, attempt>>

\* asyncio.sleep returns in the while loop: continue
WhileLoopContinue ==
    /\ rt_wrapper = "_execute_with_retry"
    /\ rt_pc = "sleeping"
    /\ rt_pc' = "attempt"
    /\ UNCHANGED <<rt_wrapper, rt_params, attempt, retry_count, last_exception,
                   metadata, rt_raised, rt_how, rt_calls, rt_sleeps, rt_seen,
                   rt_last>>

NextRetry ==
    \/ (\E o \in Outcomes : RetryWithBackoffAttempt(o)) /\ UNCHANGED notRetry
    \/ (\E o \in Outcomes : RetryJinaRequestAttempt(o)) /\ UNCHANGED notRetry
    \/ ForLoopContinue /\ UNCHANGED notRetry
    \/ (\E o \in Outcomes : ExecuteWithRetryAttempt(o)) /\ UNCHANGED notRetry
    \/ WhileLoopContinue /\ UNCHANGED notRetry

SpecRetry == InitRetry /\ [][NextRetry]_vars

(***************************************************************************)
(* Claims about the retry wrappers                                         *)
(***************************************************************************)
BackoffWrappers == {"retry_with_backoff", "retry_jina_request"}

\* C4: in retry_with_backoff and retry_jina_request the sleep before the Nth
\* retry equals min(base_delay * backoff_factor^(N-1), max_delay), and so
\* never exceeds max_delay.
C4_NthDelayIsCappedExponential ==
    rt_wrapper \in BackoffWrappers =>
        \A N \in 1..Len(rt_sleeps) :
            /\ rt_sleeps[N] =
                 Min2(rt_params.base_delay * Pow(rt_params.backoff_factor, N - 1),
                      rt_params.max_delay)
            /\ rt_sleeps[N] <= rt_params.max_delay

\* three retries of retry_jina_request with delays 1, 2 and the cap 3
C4_Witness ==
    /\ rt_wrapper = "retry_jina_request"
    /\ rt_params.base_delay = 1
    /\ rt_params.backoff_factor = 2
    /\ rt_params.max_delay = 3
    /\ rt_sleeps = <<1, 2, 3>>
    /\ rt_pc = "attempt"

\* C5: an operation that fails with a retryable error on every attempt is
\* invoked exactly max_retries + 1 times and slept for exactly max_retries
\* times before the wrapper raises, in each of the three wrappers.
C5_RetryableFailureUsesAllRetries ==
    (rt_pc = "raised" /\ rt_seen = {"Retryable"} /\ rt_last # Success)
        => /\ rt_calls = rt_params.max_retries + 1
           /\ Len(rt_sleeps) = rt_params.max_retries

\* C6: when retry_with_backoff or _execute_with_retry exhausts its retries,
\* the raised error is distinct from the underlying exception, wraps the last
\* underlying exception and carries the tool name and the attempt count
\* (retry_count = max_retries).
C6_ExhaustionRaisesTerminalError ==
    (rt_wrapper \in {"retry_with_backoff", "_execute_with_retry"}
        /\ rt_pc = "raised" /\ rt_how = "exhausted")
        => /\ rt_raised # last_exception
           /\ rt_raised.cls = "ModelRetry"
           /\ rt_raised.context = last_exception
           /\ rt_raised.retries = rt_params.max_retries

\* C6 as amended: _execute_with_retry raises a ModelRetry that is distinct
\* from the underlying exception, wraps the last one and carries the tool
\* name and max_retries, and the failure metadata it builds has retry_count =
\* max_retries; retry_with_backoff re-raises the last underlying exception
\* itself.
C6_ExhaustionPerWrapper ==
    (rt_pc = "raised" /\ rt_how = "exhausted") =>
        /\ rt_wrapper = "_execute_with_retry" =>
              /\ rt_raised # last_exception
              /\ rt_raised.cls = "ModelRetry"
              /\ rt_raised.context = last_exception
              /\ rt_raised.context = rt_last
              /\ rt_raised.tool_name = rt_params.tool_name
              /\ rt_raised.retries = rt_params.max_retries
              /\ metadata.success = FALSE
              /\ metadata.tool_name = rt_params.tool_name
              /\ metadata.retry_count = rt_params.max_retries
              /\ rt_calls = rt_params.max_retries + 1
        /\ rt_wrapper = "retry_with_backoff" =>
              /\ rt_raised = last_exception
              /\ rt_raised = rt_last
              /\ rt_raised \in Errors

\* _execute_with_retry with max_retries = 3 has exhausted its retries
C6_Witness ==
    /\ rt_wrapper = "_execute_with_retry"
    /\ rt_pc = "raised"
    /\ rt_how = "exhausted"
    /\ rt_params.max_retries = 3
    /\ rt_calls = 4
    /\ metadata.retry_count = 3

\* C7: when the operation raises an error marked non-retryable,
\* retry_with_backoff and retry_jina_request make no further attempt, do not
\* sleep after that failure and re-raise that same error; an operation that
\* always raises it is attempted once with no sleep.
C7_NonRetryableShortCircuits ==
    (rt_wrapper \in BackoffWrappers /\ rt_last \in Errors
        /\ rt_last.cls = "NonRetryable")
        => /\ rt_pc = "raised"
           /\ rt_raised = rt_last
           /\ Len(rt_sleeps) = rt_calls - 1
           /\ rt_seen = {"NonRetryable"} => (rt_calls = 1 /\ rt_sleeps = <<>>)

\* retry_jina_request re-raised the non-retryable error of its first attempt
C7_Witness ==
    /\ rt_wrapper = "retry_jina_request"
    /\ rt_params.max_retries = 3
    /\ rt_pc = "raised"
    /\ rt_how = "nonretryable"
    /\ rt_last.cls = "NonRetryable"
    /\ "timeout" \in rt_last.msg
    /\ rt_calls = 1
    /\ rt_sleeps = <<>>

(***************************************************************************)
(* ContentDetectionTool.detect_content_intent                              *)
(* (tools/content_detection_tool.py)                                       *)
(*                                                                         *)
(* A message is the list of its words; the text is the words joined by     *)
(* single blanks.  The words of the model consist of letters only, so a    *)
(* word boundary \b of a pattern falls exactly at the ends of a word.      *)
(***************************************************************************)
\* confidence += 20 per matching trigger pattern
PatternWeight == 20
\* confidence += 15 per entity pattern with a match
EntityWeight == 15
\* min(confidence, 100)
MaxConfidence == 100
\* detection_results[0]['confidence'] >= 40
PrimaryThreshold == 40
\* detected_entities[:3]
MaxEntities == 3

\* the words of the enumerated messages
Vocab ==
    {"chart", "price", "crypto", "trends", "show", "picture", "of", "in",
     "Paris", "where", "Video"}

\* "show me a chart of bitcoin price trends"
ChartOfBitcoin ==
    <<"show", "me", "a", "chart", "of", "bitcoin", "price", "trends">>

\* "what is the capital of France"
CapitalOfFrance == <<"what", "is", "the", "capital", "of", "France">>

\* further messages longer than the enumerated ones
NamedMessages ==
    {ChartOfBitcoin, CapitalOfFrance,
     <<"crypto", "price", "chart", "trends">>,
     <<"Video", "about", "trends", "in", "Paris", "a", "in", "France">>,
     <<"show", "picture", "of", "Paris", "showing", "trends">>}

Messages ==
    UNION {[1..n -> Vocab] : n \in 0..MaxWords} \cup NamedMessages

UpperLetters == "ABCDEFGHIJKLMNOPQRSTUVWXYZ"
LowerLetters == "abcdefghijklmnopqrstuvwxyz"

CharAt(w, i) == SubSeq(w, i, i)

\* the lower-case letter of each upper-case letter
LowerOf ==
    LET upper(k) == CharAt(UpperLetters, k)
    IN [c \in {upper(k) : k \in 1..26} |->
           CharAt(LowerLetters, CHOOSE k \in 1..26 : upper(k) = c)]

\* str.lower() of one character
LowerChar(c) == IF c \in DOMAIN LowerOf THEN LowerOf[c] ELSE c

RECURSIVE LowerStr(_)
\* str.lower() of a word
LowerStr(w) ==
    IF Len(w) = 0 THEN ""
    ELSE LowerChar(CharAt(w, 1)) \o LowerStr(SubSeq(w, 2, Len(w)))

\* message_lower = message.lower()
MessageLower(msg) == [i \in 1..Len(msg) |-> LowerStr(msg[i])]

StartsWith(w, p) == Len(w) >= Len(p) /\ SubSeq(w, 1, Len(p)) = p
EndsWith(w, s) == Len(w) >= Len(s) /\ SubSeq(w, Len(w) - Len(s) + 1, Len(w)) = s

RECURSIVE JoinWords(_, _, _)
\* the text of the words i..j of msg
JoinWords(msg, i, j) ==
    IF i > j THEN ""
    ELSE IF i = j THEN msg[i]
    ELSE msg[i] \o " " \o JoinWords(msg, i + 1, j)

\* the alternatives of a trigger pattern \b(alt|alt|...)\b
Word(w) == [kind |-> "word", a |-> w, b |-> ""]
Phrase(w1, w2) == [kind |-> "phrase", a |-> w1, b |-> w2]
Span(a, b) == [kind |-> "span", a |-> a, b |-> b]

\* config['patterns'] of each content type, in the order of the dictionary
TriggerPatterns(content_type) ==
    CASE content_type = "chart" ->
           << {Word("chart"), Word("graph"), Word("plot"), Word("visualize"),
               Word("visualization")},
              {Phrase("stock", "price"), Phrase("stock", "chart"),
               Phrase("price", "chart")},
              {Span("show", "data"), Span("display", "data")},
              {Word("trend"), Word("trends"), Word("trending")},
              {Word("analytics"), Word("statistics"), Word("stats")},
              {Span("compare", "data"), Word("comparison")},
              {Span("financial", "data"), Span("market", "data")},
              {Span("crypto", "price"), Word("cryptocurrency")} >>
      [] content_type = "image" ->
           << {Span("generate", "image"), Span("create", "image"),
               Span("make", "image")},
              {Span("show", "picture"), Span("display", "picture")},
              {Word("photo"), Word("photograph"), Word("pic")},
              {Word("draw"), Word("sketch"), Word("illustrate")},
              {Span("visual", "representation")},
              {Span("image", "of"), Span("picture", "of")} >>
      [] content_type = "video" ->
           << {Word("video"), Word("watch"), Word("youtube"), Word("play")},
              {Word("movie"), Word("film"), Word("clip")},
              {Word("tutorial"), Word("demo"), Word("demonstration")},
              {Word("youtube.com"), Word("youtu.be")},
              {Word("stream"), Word("streaming")} >>
      [] content_type = "map" ->
           << {Word("map"), Word("location"), Span("where", "is"),
               Word("directions")},
              {Word("address"), Word("coordinates"), Word("latitude"),
               Word("longitude")},
              {Word("route"), Word("navigation"), Word("distance")},
              {Word("city"), Word("country"), Word("state"), Word("region")},
              {Span("near", "me"), Word("nearby"), Word("around")},
              {Span("travel", "to"), Span("go", "to")} >>

\* the entity patterns: runs of 2..5 letters, one of some words, the text
\* after a word, the text after a span, the names after "in", and patterns
\* that need a character that is not a letter
Letters(lo, hi) == [kind |-> "letters", lo |-> lo, hi |-> hi]
OneOf(ws) == [kind |-> "oneof", ws |-> ws]
After(w) == [kind |-> "after", w |-> w]
AfterSpan(alts) == [kind |-> "afterspan", alts |-> alts]
NamesAfter(w) == [kind |-> "names", w |-> w]
NonLetter == [kind |-> "nonletter"]

\* config['entities'] of each content type
EntityPatterns(content_type) ==
    CASE content_type = "chart" ->
           << Letters(2, 5),
              OneOf({"bitcoin", "btc", "ethereum", "eth", "crypto"}),
              NonLetter >>
      [] content_type = "image" -> << After("of"), After("showing") >>
      [] content_type = "video" ->
           << NonLetter,
              AfterSpan(<< Span("tutorial", "on"), Span("demo", "of"),
                           Span("video", "about") >>) >>
      [] content_type = "map" -> << NamesAfter("in"), NonLetter >>

\* the content types in the order of self.content_patterns
ContentTypes == <<"chart", "image", "video", "map">>

\* a span a.*b that starts at word i and ends at word j of ml
SpanAt(alt, ml, i, j) ==
    /\ i <= j
    /\ StartsWith(ml[i], alt.a)
    /\ EndsWith(ml[j], alt.b)
    /\ i = j => Len(ml[i]) >= Len(alt.a) + Len(alt.b)

\* re.search of one alternative in the lowered message
AltMatches(alt, ml) ==
    CASE alt.kind = "word" -> \E i \in 1..Len(ml) : ml[i] = alt.a
      [] alt.kind = "phrase" ->
           \E i \in 1..(Len(ml) - 1) : ml[i] = alt.a /\ ml[i + 1] = alt.b
      [] alt.kind = "span" ->
           \E i \in 1..Len(ml) : \E j \in i..Len(ml) : SpanAt(alt, ml, i, j)

\* re.search(pattern, message_lower, re.IGNORECASE)
PatternMatches(pattern, ml) == \E alt \in pattern : AltMatches(alt, ml)

RECURSIVE NamesFrom(_, _, _)
\* the matches of \b(in\s+)([A-Z][a-z]+(?:\s+[A-Z][a-z]+)*) from word p on
NamesFrom(msg, w, p) ==
    LET n == Len(msg)
        starts == {i \in p..(n - 1) :
                      LowerStr(msg[i]) = w /\ Len(msg[i + 1]) >= 2}
    IN IF starts = {} THEN <<>>
       ELSE LET i == CHOOSE k \in starts : \A m \in starts : k <= m
                e == CHOOSE k \in (i + 1)..n :
                        /\ \A m \in (i + 1)..k : Len(msg[m]) >= 2
                        /\ k < n => Len(msg[k + 1]) < 2
            IN <<JoinWords(msg, i + 1, e)>> \o NamesFrom(msg, w, e + 1)

\* re.findall(entity_pattern, message, re.IGNORECASE), each match reduced
\* to its last group
FindAll(ep, msg) ==
    LET n == Len(msg)
        ml == MessageLower(msg)
    IN CASE ep.kind = "letters" ->
              SelectSeq(msg, LAMBDA w : Len(w) >= ep.lo /\ Len(w) <= ep.hi)
         [] ep.kind = "oneof" -> SelectSeq(msg, LAMBDA w : LowerStr(w) \in ep.ws)
         [] ep.kind = "nonletter" -> <<>>
         [] ep.kind = "after" ->
              LET starts == {i \in 1..(n - 1) : ml[i] = ep.w}
              IN IF starts = {} THEN <<>>
                 ELSE <<JoinWords(msg,
                          (CHOOSE k \in starts : \A m \in starts : k <= m) + 1,
                          n)>>
         [] ep.kind = "afterspan" ->
              LET ends(a, i) == {j \in i..(n - 1) : SpanAt(ep.alts[a], ml, i, j)}
                  starts == {i \in 1..(n - 1) :
                                \E a \in 1..Len(ep.alts) : ends(a, i) # {}}
              IN IF starts = {} THEN <<>>
                 ELSE LET i == CHOOSE k \in starts : \A m \in starts : k <= m
                          a == CHOOSE k \in 1..Len(ep.alts) :
                                  /\ ends(k, i) # {}
                                  /\ \A m \in 1..(k - 1) : ends(m, i) = {}
                          j == CHOOSE k \in ends(a, i) :
                                  \A m \in ends(a, i) : m <= k
                      IN <<JoinWords(msg, j + 1, n)>>
         [] ep.kind = "names" -> NamesFrom(msg, ep.w, 1)

RECURSIVE Concat(_)
\* detected_entities after all extend calls
Concat(ss) == IF ss = <<>> THEN <<>> ELSE Head(ss) \o Concat(Tail(ss))

\* l[:k]
Take(l, k) == SubSeq(l, 1, Min2(Len(l), k))

\* the primary detection threshold: confidence >= 40
IsPrimaryMutStrict(confidence) == confidence > PrimaryThreshold
IsPrimary(confidence) == confidence >= PrimaryThreshold

\* one iteration of the loop over self.content_patterns (lines 110-137)
Detection(content_type, msg) ==
    LET ml == MessageLower(msg)
        patterns == TriggerPatterns(content_type)
        entity_patterns == EntityPatterns(content_type)
        pattern_matches ==
            Cardinality({k \in 1..Len(patterns) : PatternMatches(patterns[k], ml)})
        matches == [k \in 1..Len(entity_patterns) |->
                       FindAll(entity_patterns[k], msg)]
        entity_hits ==
            Cardinality({k \in 1..Len(entity_patterns) : matches[k] # <<>>})
        confidence == PatternWeight * pattern_matches + EntityWeight * entity_hits
    IN [content_type |-> content_type,
        confidence |-> Min2(confidence, MaxConfidence),
        entities |-> Take(Concat(matches), MaxEntities),
        pattern_matches |-> pattern_matches]

RECURSIVE InsertByConfidence(_, _)
\* d put behind every element of l whose confidence is not smaller
InsertByConfidence(l, d) ==
    IF l = <<>> THEN <<d>>
    ELSE IF Head(l).confidence >= d.confidence
         THEN <<Head(l)>> \o InsertByConfidence(Tail(l), d)
         ELSE <<d>> \o l

RECURSIVE SortByConfidence(_)
\* detection_results.sort(key=confidence, reverse=True), a stable sort
SortByConfidenceMutUnsorted(l) == l
SortByConfidence(l) ==
    IF l = <<>> THEN <<>>
    ELSE InsertByConfidence(SortByConfidence(SubSeq(l, 1, Len(l) - 1)),
                            l[Len(l)])

\* the result dictionary of detect_content_intent (lines 106-155)
DetectContentIntent(msg) ==
    LET all == [k \in 1..Len(ContentTypes) |-> Detection(ContentTypes[k], msg)]
        detection_results ==
            SortByConfidence(SelectSeq(all, LAMBDA d : d.pattern_matches > 0))
        primary == detection_results # <<>>
                      /\ IsPrimary(detection_results[1].confidence)
    IN [has_visual_content |-> primary,
        primary_content_type |->
            IF primary THEN detection_results[1].content_type ELSE "text",
        confidence |-> IF primary THEN detection_results[1].confidence ELSE 0,
        entities |-> IF primary THEN detection_results[1].entities ELSE <<>>,
        all_detections |-> detection_results]

InitDetect ==
    /\ message \in Messages
    /\ cd_pc = "call"
    /\ cd_result = None
    /\ RateLimiterIdle
    /\ RetryIdle
    /\ StreamIdle
    /\ JinaIdle
    /\ DeepResearchIdle

\* detector.detect_content_intent(deps, message, context)
DetectCall ==
    /\ cd_pc = "call"
    /\ cd_result' = DetectContentIntent(message)
    /\ cd_pc' = "done"
    /\ UNCHANGED message

NextDetect == DetectCall /\ UNCHANGED notDetect

SpecDetect == InitDetect /\ [][NextDetect]_vars

(***************************************************************************)
(* Claims about detect_content_intent                                      *)
(***************************************************************************)
\* the largest confidence among the detections l (0 for none)
TopConfidence(l) ==
    IF l = <<>> THEN 0
    ELSE LET k == CHOOSE k \in 1..Len(l) :
                     \A m \in 1..Len(l) : l[m].confidence <= l[k].confidence
         IN l[k].confidence

\* the included content types of a message: those with a matching trigger
IncludedTypes(msg) ==
    LET ml == MessageLower(msg)
    IN {ContentTypes[k] : k \in {m \in 1..Len(ContentTypes) :
           \E p \in 1..Len(TriggerPatterns(ContentTypes[m])) :
               PatternMatches(TriggerPatterns(ContentTypes[m])[p], ml)}}

\* C8: detect_content_intent reports as primary the highest-confidence
\* included content type if and only if that confidence is >= 40; otherwise
\* it reports 'text' with confidence 0, no entities and has_visual_content
\* false ("what is the capital of France" is such a message).
C8_PrimaryIffTopConfidenceAtLeast40 ==
    cd_pc = "done" =>
        LET all == cd_result.all_detections
            top == TopConfidence(all)
        IN /\ {all[k].content_type : k \in 1..Len(all)} = IncludedTypes(message)
           /\ IF all # <<>> /\ top >= 40
              THEN /\ cd_result.has_visual_content
                   /\ cd_result.primary_content_type \in IncludedTypes(message)
                   /\ cd_result.confidence = top
                   /\ \E k \in 1..Len(all) :
                        /\ all[k].content_type = cd_result.primary_content_type
                        /\ all[k].confidence = top
                        /\ all[k].entities = cd_result.entities
              ELSE /\ ~cd_result.has_visual_content
                   /\ cd_result.primary_content_type = "text"
                   /\ cd_result.confidence = 0
                   /\ cd_result.entities = <<>>
           /\ message = CapitalOfFrance =>
                 /\ cd_result.primary_content_type = "text"
                 /\ cd_result.confidence = 0

\* a message whose top confidence is exactly 40 has that type as primary
C8_Witness ==
    /\ cd_pc = "done"
    /\ message = <<"show", "picture", "of">>
    /\ cd_result.primary_content_type = "image"
    /\ cd_result.confidence = 40
    /\ cd_result.has_visual_content

\* C9: for "show me a chart of bitcoin price trends" the result is primary
\* type 'chart' with confidence >= 40 and a primary entity list of at most 3
\* entries that contains a bitcoin/crypto token.
C9_ChartOfBitcoinHasBitcoinEntity ==
    (cd_pc = "done" /\ message = ChartOfBitcoin) =>
        /\ cd_result.primary_content_type = "chart"
        /\ cd_result.confidence >= 40
        /\ Len(cd_result.entities) <= 3
        /\ \E k \in 1..Len(cd_result.entities) :
              LowerStr(cd_result.entities[k])
                 \in {"bitcoin", "btc", "ethereum", "eth", "crypto"}


(***************************************************************************)
(* /chat/stream: chat_with_orchestrator_stream and its generate_stream     *)
(* (routes.py), with MetatronAgent.run (agent.py)                          *)
(***************************************************************************)
\* the texts of request.message, each with or without the
\* "[DEEP_RESEARCH_MODE]" marker
MessageTexts == {"hello", "quantum computing"}

\* the values of request.workspace ("" stands for a missing workspace)
Workspaces == {"", "default", "research", "creative", "social"}

\* the requests: message, workspace and the deep_research flag of context
\* (absent when context is None)
Requests ==
    [message : [marker : BOOLEAN, text : MessageTexts],
     workspace : Workspaces,
     context : {"none", "deep_research", "no_deep_research"}]

\* s contains sub ("sub in s" of Python)
Contains(s, sub) ==
    \E i \in 1..(Len(s) - Len(sub) + 1) : SubSeq(s, i, i + Len(sub) - 1) = sub

\* an exception object: its class and str(e)
Exc(cls, text) == [cls |-> cls, text |-> text]

\* the texts of the exceptions the PydanticAI call may raise
LlmErrorTexts ==
    {"429 Too Many Requests", "RESOURCE_EXHAUSTED: quota exceeded", "boom",
     "connection timeout"}

\* the text of the exception PydanticAI raises when a tool keeps raising
\* ModelRetry
ToolRetriesExceeded == "Tool exceeded max retries count of 1"

\* the classes of the connection failures of the model call
ConnectionErrors == {"ConnectionError", "TimeoutError"}

\* what the PydanticAI call self.agent.run does: it returns an output or
\* raises an exception of some class with some text; tool tells whether a tool exhausted
\* its retries in _execute_with_retry (raised ModelRetry) during the call
LlmOutcomes ==
    [kind : {"output"}, cls : {""}, response : {"answer"}, text : {""},
     tool : {"none", "exhausted"}]
      \cup [kind : {"exception"}, cls : {"Exception"}, response : {""},
            text : LlmErrorTexts, tool : {"none"}]
      \cup [kind : {"exception"}, cls : ConnectionErrors, response : {""},
            text : {"boom", "connection timeout"}, tool : {"none"}]
      \cup [kind : {"exception"}, cls : {"UnexpectedModelBehavior"},
            response : {""}, text : {ToolRetriesExceeded},
            tool : {"exhausted"}]

\* what MetatronAgent.initialize does when get_orchestrator_agent recreates
\* the agent: it succeeds or re-raises (agent.py lines 45-70)
InitOutcomes ==
    {[ok |-> TRUE, exc |-> None],
     [ok |-> FALSE,
      exc |-> Exc("ValueError", "Gemini API key not found in configuration")],
     [ok |-> FALSE, exc |-> Exc("Exception", "network unreachable")]}

\* the message handed to the agent (routes.py lines 389-402)
DeepResearchMessage(req) ==
    LET is_deep_research ==
            req.message.marker \/ req.context = "deep_research"
    IN IF is_deep_research
       THEN [marker |-> TRUE, text |-> req.message.text]
       ELSE req.message

\* deps.workspace: request.workspace or "default"
DepsWorkspace(req) == IF req.workspace = "" THEN "default" ELSE req.workspace

\* available_tools of _prepare_tools
AvailableTools ==
    <<"search_memory", "use_creative_studio", "manage_social_media",
      "deep_research", "browse_web", "search_wikipedia", "search_reddit",
      "research_news", "process_document", "analyze_youtube",
      "understand_media", "detect_content_intent", "nano_perplexity_search">>

\* the tools put in front for a workspace
PriorityTools(workspace) ==
    CASE workspace = "research" ->
           <<"deep_research", "nano_perplexity_search", "search_wikipedia",
             "research_news">>
      [] workspace = "creative" -> <<"use_creative_studio", "understand_media">>
      [] OTHER -> <<>>

\* MetatronAgent._prepare_tools(context)
PrepareToolsMutFilter(context) ==
    IF context.workspace \in {"research", "creative"}
    THEN PriorityTools(context.workspace)
    ELSE AvailableTools
PrepareTools(context) ==
    IF context.workspace = "research"
    THEN PriorityTools("research") \o AvailableTools
    ELSE IF context.workspace = "creative"
    THEN PriorityTools("creative") \o AvailableTools
    ELSE AvailableTools

\* "429" in error_msg or "RESOURCE_EXHAUSTED" in error_msg
IsRateLimitMut429Only(text) == Contains(text, "429")
IsRateLimit(text) == Contains(text, "429") \/ Contains(text, "RESOURCE_EXHAUSTED")

\* the response of the rate-limit output (its headline)
RateLimitResponse == "Rate Limit Reached"

\* the response the fallback output would carry
FallbackResponse(text) ==
    "I apologize, but I encountered an error processing your request: " \o text

\* the exception of line 547: the import of line 521 makes
\* OrchestratorOutput a local name of run, unbound unless line 521 ran
UnboundLocalError ==
    Exc("UnboundLocalError",
        "cannot access local variable 'OrchestratorOutput' where it is not associated with a value")

\* how MetatronAgent.run ends for an outcome of the model call (agent.py
\* lines 507-563): it returns the model's output or the rate-limit output,
\* or its handler of the other errors raises at line 547
RunResultMutFallback(o) ==
    IF o.kind = "output"
    THEN [kind |-> "return", exc |-> None,
          output |-> [response |-> o.response, source |-> "model"]]
    ELSE IF IsRateLimit(o.text)
    THEN [kind |-> "return", exc |-> None,
          output |-> [response |-> RateLimitResponse, source |-> "rate_limit"]]
    ELSE [kind |-> "return", exc |-> None,
          output |-> [response |-> FallbackResponse(o.text),
                      source |-> "fallback"]]
RunResult(o) ==
    IF o.kind = "output"
    THEN [kind |-> "return", exc |-> None,
          output |-> [response |-> o.response, source |-> "model"]]
    ELSE IF IsRateLimit(o.text)
    THEN [kind |-> "return", exc |-> None,
          output |-> [response |-> RateLimitResponse, source |-> "rate_limit"]]
    ELSE [kind |-> "raise", exc |-> UnboundLocalError, output |-> None]

StatusChunk(progress) == [type |-> "status", progress |-> progress]
ResponseChunk(res) ==
    [type |-> "response", response |-> res.output.response,
     workspace |-> "orchestrator"]
\* error_data of the except clause of generate_stream (lines 449-453)
ErrorChunkMutStatus(e) ==
    [type |-> "status", message |-> "Processing failed: " \o e.text,
     progress |-> 100]
ErrorChunk(e) ==
    [type |-> "error", message |-> "Processing failed: " \o e.text,
     progress |-> 100]
\* the line "data: [DONE]"
DoneLineMutStatus == [type |-> "status", progress |-> 100]
DoneLine == [type |-> "[DONE]"]

\* the state of a route before it is called
EndpointInit(pc) ==
    /\ request \in Requests
    /\ st_message = None
    /\ st_pc = pc
    /\ chunks = <<>>
    /\ result = None
    /\ llm_calls = 0
    /\ llm_outcome = None
    /\ prepared_tools = <<>>
    /\ st_exc = None
    /\ http = None
    /\ ch_attempt = 0
    /\ RateLimiterIdle
    /\ RetryIdle
    /\ DetectIdle
    /\ JinaIdle
    /\ DeepResearchIdle

InitStream == EndpointInit("request")

\* chat_with_orchestrator_stream up to the StreamingResponse (lines 377-466)
ChatStreamCall ==
    /\ st_pc = "request"
    /\ st_message' = DeepResearchMessage(request)
    /\ st_pc' = "start"
    /\ UNCHANGED <<request, chunks, result, llm_calls, llm_outcome,
                   prepared_tools, st_exc, http, ch_attempt>>

\* get_orchestrator_agent raises: the route answers with HTTP 500
\* (lines 379, 468-470)
ChatStreamInitFails(i) ==
    /\ st_pc = "request"
    /\ ~i.ok
    /\ st_exc' = i.exc
    /\ http' = [status |-> 500, detail |-> "Streaming failed: " \o i.exc.text]
    /\ st_pc' = "http_error"
    /\ UNCHANGED <<request, st_message, chunks, result, llm_calls, llm_outcome,
                   prepared_tools, ch_attempt>>

\* yield of the initial status (line 410)
YieldInitialStatus ==
    /\ st_pc = "start"
    /\ chunks' = Append(chunks, StatusChunk(10))
    /\ st_pc' = "run"
    /\ UNCHANGED <<request, st_message, result, llm_calls, llm_outcome,
                   prepared_tools, st_exc, http, ch_attempt>>

\* MetatronAgent.run(message, deps): _prepare_tools, one self.agent.run call
\* and the handling of its outcome (agent.py lines 481-563); the caller
\* goes on at returned, or catches the exception as caught and goes on at
\* raised
MetatronRun(o, returned, raised, caught) ==
    LET r == RunResult(o)
    IN /\ llm_calls' = llm_calls + 1
       /\ llm_outcome' = o
       /\ prepared_tools' = PrepareTools([workspace |-> DepsWorkspace(request)])
       /\ IF r.kind = "return"
          THEN /\ result' = [output |-> r.output]
               /\ st_pc' = returned
               /\ UNCHANGED st_exc
          ELSE /\ st_exc' = caught
               /\ st_pc' = raised
               /\ UNCHANGED result

\* result = await agent.run(...) (lines 415-419)
AgentRun(o) ==
    /\ st_pc = "run"
    /\ MetatronRun(o, "formatting", "except", RunResult(o).exc)
    /\ UNCHANGED <<request, st_message, chunks, http, ch_attempt>>

\* yield of the completion status (line 423)
YieldCompletionStatus ==
    /\ st_pc = "formatting"
    /\ chunks' = Append(chunks, StatusChunk(90))
    /\ st_pc' = "respond"
    /\ UNCHANGED <<request, st_message, result, llm_calls, llm_outcome,
                   prepared_tools, st_exc, http, ch_attempt>>

\* yield of the response data (lines 426-443)
YieldResponse ==
    /\ st_pc = "respond"
    /\ chunks' = Append(chunks, ResponseChunk(result))
    /\ st_pc' = "finish"
    /\ UNCHANGED <<request, st_message, result, llm_calls, llm_outcome,
                   prepared_tools, st_exc, http, ch_attempt>>

\* yield of the [DONE] line (line 444); the generator ends
YieldDone ==
    /\ st_pc = "finish"
    /\ chunks' = Append(chunks, DoneLine)
    /\ st_pc' = "closed"
    /\ UNCHANGED <<request, st_message, result, llm_calls, llm_outcome,
                   prepared_tools, st_exc, http, ch_attempt>>

\* except Exception: yield of the error data (lines 447-454)
YieldError ==
    /\ st_pc = "except"
    /\ chunks' = Append(chunks, ErrorChunk(st_exc))
    /\ st_pc' = "except_done"
    /\ UNCHANGED <<request, st_message, result, llm_calls, llm_outcome,
                   prepared_tools, st_exc, http, ch_attempt>>

\* except Exception: yield of the [DONE] line (line 455); the generator ends
YieldErrorDone ==
    /\ st_pc = "except_done"
    /\ chunks' = Append(chunks, DoneLine)
    /\ st_pc' = "closed"
    /\ UNCHANGED <<request, st_message, result, llm_calls, llm_outcome,
                   prepared_tools, st_exc, http, ch_attempt>>

NextStream ==
    \/ ChatStreamCall /\ UNCHANGED notStream
    \/ (\E i \in InitOutcomes : ChatStreamInitFails(i)) /\ UNCHANGED notStream
    \/ YieldInitialStatus /\ UNCHANGED notStream
    \/ (\E o \in LlmOutcomes : AgentRun(o)) /\ UNCHANGED notStream
    \/ YieldCompletionStatus /\ UNCHANGED notStream
    \/ YieldResponse /\ UNCHANGED notStream
    \/ YieldDone /\ UNCHANGED notStream
    \/ YieldError /\ UNCHANGED notStream
    \/ YieldErrorDone /\ UNCHANGED notStream

SpecStream == InitStream /\ [][NextStream]_vars

(***************************************************************************)
(* /chat: chat_with_orchestrator with retry_with_backoff (routes.py)       *)
(***************************************************************************)
\* max_retries=2 of the retry_with_backoff call (line 206)
ChatMaxRetries == 2

\* the keywords of run_chat_with_retry (line 198)
ChatKeywords == {"timeout", "connection", "network", "temporary"}

\* the exception run_chat_with_retry raises for an exception of agent.run
\* (lines 196-201)
WrapChatError(e) ==
    IF \E keyword \in ChatKeywords : Contains(LowerStr(e.text), keyword)
    THEN Exc("RetryableError", "Temporary error: " \o e.text)
    ELSE Exc("NonRetryableError", "Permanent error: " \o e.text)

\* where retry_with_backoff goes on after the function raised e
\* (lines 76-94)
AfterChatError(e) ==
    IF e.cls = "NonRetryableError" THEN "chat_raised"
    ELSE IF ch_attempt = ChatMaxRetries THEN "chat_raised"
    ELSE "chat_sleeping"

\* user_message of create_error_response (lines 104-121)
UserMessage(e) ==
    LET error_message == LowerStr(e.text)
    IN IF e.cls \in {"ConnectionError", "TimeoutError"}
       THEN "I'm having trouble connecting to external services. Please try again in a moment."
       ELSE IF e.cls = "ValueError"
       THEN "There was an issue with the request format. Please check your input and try again."
       ELSE IF e.cls = "PermissionError"
       THEN "I don't have permission to access the requested resource."
       ELSE IF Contains(error_message, "rate limit")
       THEN "I'm currently experiencing high demand. Please wait a moment and try again."
       ELSE IF Contains(error_message, "api key")
                 \/ Contains(error_message, "authentication")
       THEN "There's an authentication issue with external services. Please contact support."
       ELSE "I encountered an unexpected issue. Please try again or contact support if the problem persists."

\* the HTTPException of the except clauses of /chat (lines 220-243)
HttpError(e) ==
    IF e.cls = "NonRetryableError"
    THEN [status |-> 400, body |-> UserMessage(e)]
    ELSE IF e.cls = "RetryableError"
    THEN [status |-> 503,
          body |-> "I'm experiencing temporary difficulties. Please try again in a moment."]
    ELSE [status |-> 500, body |-> UserMessage(e)]

InitChat == EndpointInit("chat_request")

\* an attempt of retry_with_backoff in which get_orchestrator_agent raises
\* (line 163, outside the try of run_chat_with_retry)
ChatInitFails(i) ==
    /\ st_pc = "chat_request"
    /\ ~i.ok
    /\ st_exc' = i.exc
    /\ st_pc' = AfterChatError(i.exc)
    /\ UNCHANGED <<request, st_message, chunks, result, llm_calls, llm_outcome,
                   prepared_tools, http, ch_attempt>>

\* an attempt of retry_with_backoff in which agent.run is called
\* (lines 163-201)
ChatAgentRun(o) ==
    /\ st_pc = "chat_request"
    /\ st_message' = DeepResearchMessage(request)
    /\ MetatronRun(o, "chat_respond",
                   AfterChatError(WrapChatError(RunResult(o).exc)),
                   WrapChatError(RunResult(o).exc))
    /\ UNCHANGED <<request, chunks, http, ch_attempt>>

\* asyncio.sleep(delay) of retry_with_backoff returns; the next attempt
ChatSleep ==
    /\ st_pc = "chat_sleeping"
    /\ ch_attempt' = ch_attempt + 1
    /\ st_pc' = "chat_request"
    /\ UNCHANGED <<request, st_message, chunks, result, llm_calls, llm_outcome,
                   prepared_tools, st_exc, http>>

\* return ChatResponse(response=result.output.response, ...) (lines 212-218)
ChatRespond ==
    /\ st_pc = "chat_respond"
    /\ http' = [status |-> 200, body |-> result.output.response]
    /\ st_pc' = "chat_done"
    /\ UNCHANGED <<request, st_message, chunks, result, llm_calls, llm_outcome,
                   prepared_tools, st_exc, ch_attempt>>

\* the except clauses of chat_with_orchestrator (lines 220-243)
ChatFail ==
    /\ st_pc = "chat_raised"
    /\ http' = HttpError(st_exc)
    /\ st_pc' = "chat_done"
    /\ UNCHANGED <<request, st_message, chunks, result, llm_calls, llm_outcome,
                   prepared_tools, st_exc, ch_attempt>>

NextChat ==
    \/ (\E i \in InitOutcomes : ChatInitFails(i)) /\ UNCHANGED notStream
    \/ (\E o \in LlmOutcomes : ChatAgentRun(o)) /\ UNCHANGED notStream
    \/ ChatSleep /\ UNCHANGED notStream
    \/ ChatRespond /\ UNCHANGED notStream
    \/ ChatFail /\ UNCHANGED notStream

SpecChat == InitChat /\ [][NextChat]_vars

\* the two chat routes
InitEndpoints == InitStream \/ InitChat

NextEndpoints == NextStream \/ NextChat

SpecEndpoints == InitEndpoints /\ [][NextEndpoints]_vars

(***************************************************************************)
(* Claims about the stream                                                 *)
(***************************************************************************)
\* the chunks of type t among the yielded ones
ChunksOfType(t) == {k \in 1..Len(chunks) : chunks[k].type = t}

\* C10: for a successful streaming session (the agent run returned a
\* result) the chunk sequence starts with a 'status' chunk, ends with exactly
\* one 'complete' chunk and has no chunk after the 'complete' chunk.
C10_SuccessfulStreamEndsWithComplete ==
    (st_pc = "closed" /\ result # None) =>
        /\ chunks[1].type = "status"
        /\ Cardinality(ChunksOfType("complete")) = 1
        /\ \A k \in ChunksOfType("complete") :
              \A m \in (k + 1)..Len(chunks) : chunks[m].type = "[DONE]"

\* the generator of the session is in its except clause or has left it
OnErrorPath == st_exc # None /\ st_pc \in {"except", "except_done", "closed"}

\* C11: a streaming session on the error path (an exception was raised
\* inside generate_stream) emits an error-typed signal exactly once, never a
\* 'complete' chunk, and no response or other output chunk after the error
\* signal: only the [DONE] line may follow it.
C11_ErrorPathEmitsOneErrorSignal ==
    OnErrorPath =>
        /\ Cardinality(ChunksOfType("error")) <= 1
        /\ st_pc \in {"except_done", "closed"}
              => Cardinality(ChunksOfType("error")) = 1
        /\ ChunksOfType("complete") = {}
        /\ \A k \in ChunksOfType("error") :
              \A m \in (k + 1)..Len(chunks) : chunks[m].type = "[DONE]"

\* a session that ended on the error path after its model call failed
C11_Witness ==
    /\ OnErrorPath
    /\ st_pc = "closed"
    /\ llm_outcome.kind = "exception"
    /\ chunks[2].type = "error"
    /\ Len(chunks) = 3

\* C12: every stream of generate_stream that runs to its end, on the
\* success path and on the error path alike, contains the [DONE] line exactly
\* once, as its last line; nothing is emitted after [DONE].
C12_DoneIsLastExactlyOnce ==
    /\ st_pc = "closed" =>
          /\ Cardinality(ChunksOfType("[DONE]")) = 1
          /\ chunks[Len(chunks)].type = "[DONE]"
    /\ \A k \in ChunksOfType("[DONE]") : k = Len(chunks) /\ st_pc = "closed"

\* a stream that ran to its end on the success path
C12_Witness ==
    /\ st_pc = "closed"
    /\ result # None
    /\ st_exc = None
    /\ Len(chunks) = 4
    /\ chunks[4] = DoneLine

\* the model call of the session hit the quota / rate limit
RateLimited ==
    /\ llm_outcome # None
    /\ llm_outcome.kind = "exception"
    /\ \/ Contains(llm_outcome.text, "429")
       \/ Contains(llm_outcome.text, "RESOURCE_EXHAUSTED")

\* C13: when the model call fails with a quota/rate-limit condition (text
\* containing '429' or 'RESOURCE_EXHAUSTED'), MetatronAgent.run calls the
\* model exactly once, returns the single rate-limit response, and the
\* session finishes normally: the stream emits a response and no error
\* signal, and /chat returns a normal response, not an HTTP error.
C13_RateLimitCompletesNormally ==
    RateLimited =>
        /\ llm_calls = 1
        /\ result = [output |-> [response |-> RateLimitResponse,
                                  source |-> "rate_limit"]]
        /\ ChunksOfType("error") = {}
        /\ st_pc \notin {"except", "except_done", "chat_raised", "chat_sleeping",
                         "chat_request"}
        /\ st_pc = "closed" =>
              /\ Cardinality(ChunksOfType("response")) = 1
              /\ \A k \in ChunksOfType("response") :
                    chunks[k].response = RateLimitResponse
        /\ st_pc = "chat_done" =>
              http = [status |-> 200, body |-> RateLimitResponse]

\* a rate-limited /chat request that was answered
C13_Witness ==
    /\ RateLimited
    /\ st_pc = "chat_done"
    /\ http.status = 200
    /\ llm_calls = 1

\* the model call of the session failed with an error that is not a
\* rate-limit condition
LlmFailedOtherwise ==
    /\ llm_outcome # None
    /\ llm_outcome.kind = "exception"
    /\ ~Contains(llm_outcome.text, "429")
    /\ ~Contains(llm_outcome.text, "RESOURCE_EXHAUSTED")

UserVisible ==
    (IF result # None THEN {result.output.response} ELSE {})
      \cup {chunks[k].response : k \in ChunksOfType("response")}
      \cup {chunks[k].message : k \in ChunksOfType("error")}
      \cup (IF st_pc = "chat_done" THEN {http.body} ELSE {})

\* the texts of the exceptions raised in the session
RaisedTexts ==
    (IF llm_outcome # None /\ llm_outcome.kind = "exception"
     THEN {llm_outcome.text} ELSE {})
      \cup (IF st_exc # None THEN {st_exc.text} ELSE {})

\* the fixed user messages: the model's answer, the rate-limit response and
\* the messages of the /chat error mapping
MappedUserMessages ==
    {"answer", RateLimitResponse}
      \cup {HttpError(Exc(cls, "")).body :
               cls \in {"NonRetryableError", "RetryableError", "ConnectionError",
                        "ValueError", "PermissionError"}}
      \cup {UserMessage(Exc("Exception", text)) :
               text \in {"rate limit", "api key"}}

\* C15: no user-visible output (the response returned by MetatronAgent.run,
\* a chunk of the stream, the detail of an HTTP error of /chat) contains the
\* raw text of an underlying exception; the output is drawn from the fixed
\* set of mapped user messages, whatever the exception's text.
C15_NoRawExceptionText ==
    \A out \in UserVisible :
        /\ out \in MappedUserMessages
        /\ \A text \in RaisedTexts : ~Contains(out, text)

\* a tool exhausted its retries in _execute_with_retry during the model call
ToolExhausted == llm_outcome # None /\ llm_outcome.tool = "exhausted"

Suffix(l, n) == SubSeq(l, Len(l) - n + 1, Len(l))

\* the elements of l
Range(l) == {l[k] : k \in 1..Len(l)}

\* C17: _prepare_tools returns a list that ends with the full 13-tool set
\* in its fixed order, so no tool is excluded; for workspace 'research' or
\* 'creative' the full list is preceded by the workspace's priority subset
\* (every member of which is in the full set), and for any other workspace
\* the result is exactly the full list.
C17_PreparedToolsEndWithFullSet ==
    llm_outcome # None =>
        LET workspace == DepsWorkspace(request)
            n == Len(prepared_tools)
            prefix == SubSeq(prepared_tools, 1, n - 13)
        IN /\ Len(AvailableTools) = 13
           /\ Cardinality(Range(AvailableTools)) = 13
           /\ n >= 13
           /\ Suffix(prepared_tools, 13) = AvailableTools
           /\ Range(prefix) \subseteq Range(AvailableTools)
           /\ workspace = "research" =>
                 prefix = <<"deep_research", "nano_perplexity_search",
                            "search_wikipedia", "research_news">>
           /\ workspace = "creative" =>
                 prefix = <<"use_creative_studio", "understand_media">>
           /\ workspace \notin {"research", "creative"} =>
                 prepared_tools = AvailableTools

\* a run in the research workspace prepared 4 + 13 tools
C17_Witness ==
    /\ llm_outcome # None
    /\ request.workspace = "research"
    /\ Len(prepared_tools) = 17
    /\ prepared_tools[1] = "deep_research"

(***************************************************************************)
(* Further claims about detect_content_intent                              *)
(***************************************************************************)
\* the number of trigger patterns of content_type that match msg
TriggersMatched(content_type, msg) ==
    LET patterns == TriggerPatterns(content_type)
        ml == MessageLower(msg)
    IN Cardinality({p \in 1..Len(patterns) : PatternMatches(patterns[p], ml)})

\* the number of entity patterns of content_type with a match in msg
EntityPatternsMatched(content_type, msg) ==
    LET entity_patterns == EntityPatterns(content_type)
    IN Cardinality({p \in 1..Len(entity_patterns) :
                       FindAll(entity_patterns[p], msg) # <<>>})

\* C18: a content type (chart, image, video, map) appears in all_detections
\* if and only if at least one of its trigger patterns matched the message,
\* and then its confidence is min(20 * trigger patterns matched + 15 * entity
\* patterns with a match, 100); entity matches alone produce no detection,
\* and all_detections is ordered by non-increasing confidence.
C18_DetectionsScoredAndSorted ==
    cd_pc = "done" =>
        LET all == cd_result.all_detections
            at(t) == {k \in 1..Len(all) : all[k].content_type = t}
        IN /\ \A t \in {"chart", "image", "video", "map"} :
                 LET pm == TriggersMatched(t, message)
                     em == EntityPatternsMatched(t, message)
                     raw == 20 * pm + 15 * em
                 IN /\ Cardinality(at(t)) = IF pm > 0 THEN 1 ELSE 0
                    /\ \A k \in at(t) :
                          all[k].confidence = IF raw < 100 THEN raw ELSE 100
           /\ \A k \in 1..Len(all) :
                 all[k].content_type \in {"chart", "image", "video", "map"}
           /\ \A k \in 1..(Len(all) - 1) :
                 all[k].confidence >= all[k + 1].confidence

\* a message with two detections, the later content type first, and with
\* entity matches for a type without a trigger match
C18_Witness ==
    /\ cd_pc = "done"
    /\ message = <<"show", "picture", "of", "Paris", "showing", "trends">>
    /\ Len(cd_result.all_detections) = 2
    /\ cd_result.all_detections[1].content_type = "image"
    /\ cd_result.all_detections[2].content_type = "chart"
    /\ cd_result.all_detections[1].confidence
          > cd_result.all_detections[2].confidence
    /\ EntityPatternsMatched("map", message) = 0
    /\ TriggersMatched("video", message) = 0

(***************************************************************************)
(* Claims about interleaved RateLimiter.acquire calls                      *)
(***************************************************************************)
\* caller d starts an acquire on key in this step
EntersAcquire(d, key) ==
    /\ rl_pc[d] = "ready"
    /\ rl_pc'[d] # "ready"
    /\ rl_key'[d] = key

\* C19: within one acquire call there is no suspension point between the
\* purge of the key's window and the append of the new timestamp, so no
\* other coroutine's acquire on the same key executes between the two
\* steps (while a caller has purged and not yet appended).
C19_NoAcquireBetweenPurgeAndAppend ==
    [][\A c \in Callers :
          rl_pc[c] = "sleeping" =>
              \A d \in Callers \ {c} : ~EntersAcquire(d, rl_key[c])]_vars

\* how often timestamp t is recorded in the list l
Count(l, t) == Cardinality({k \in 1..Len(l) : l[k] = t})

\* caller c returns from acquire in this step
ReturnsFromAcquire(c) == rl_pc[c] # "returned" /\ rl_pc'[c] = "returned"

C21_RecordsAdmissionTime ==
    [][\A c \in Callers :
          ReturnsFromAcquire(c) =>
              LET old == requests[rl_key'[c]]
                  new == requests'[rl_key'[c]]
              IN /\ new # <<>>
                 /\ new[Len(new)] = clock'
                 /\ Count(new, clock') <= Count(old, clock') + 1]_vars

(***************************************************************************)
(* One caller issuing acquire calls one after another on the default key   *)
(***************************************************************************)
\* the admission times with t added, cut to the latest max_requests + 1
Admit(l, t) ==
    LET a == Append(l, t)
    IN IF Len(a) > max_requests + 1 THEN Tail(a) ELSE a

InitSequential == InitRateLimiter

\* the caller enters acquire; it is admitted at once unless it has to sleep
SeqAcquireEnter ==
    /\ AcquireEnter("c1", "default")
    /\ admissions' = IF rl_pc'["c1"] = "returned"
                     THEN Admit(admissions, clock) ELSE admissions
    /\ UNCHANGED <<acquires, rtVars, cdVars, stVars, drVars>>

\* the sleeping caller is admitted
SeqAcquireWake ==
    /\ AcquireWake("c1")
    /\ admissions' = Admit(admissions, clock)
    /\ UNCHANGED <<acquires, rtVars, cdVars, stVars, drVars>>

\* the call is over; the next call may start
SeqContinue == Continue("c1") /\ UNCHANGED notRateLimiter

SeqTick == Tick /\ UNCHANGED notRateLimiter

NextSequential ==
    \/ SeqAcquireEnter
    \/ SeqAcquireWake
    \/ SeqContinue
    \/ SeqTick

SpecSequential == InitSequential /\ [][NextSequential]_vars

\* C22: with callers issuing acquire sequentially on one key, at most
\* max_requests calls are admitted (return) within any time interval
\* shorter than time_window: any max_requests + 1 consecutive admissions
\* span at least time_window.
C22_AtMostMaxAdmittedPerWindow ==
    (max_requests >= 1 /\ Len(admissions) = max_requests + 1) =>
        admissions[Len(admissions)] - admissions[1] >= time_window

(***************************************************************************)
(* JinaAIService._make_request_with_retry: one acquire, then               *)
(* retry_jina_request around _make_request                                 *)
(***************************************************************************)
\* retry_jina_request(self._make_request, max_retries=3, base_delay=1.0,
\* max_delay=30.0, ...), backoff_factor left at its default 2.0
JinaRequestParams ==
    [max_retries |-> 3, base_delay |-> 1, max_delay |-> 30, backoff_factor |-> 2]

\* a JinaAIService whose caller is about to call _make_request_with_retry
InitJinaRequest ==
    /\ max_requests \in 1..MaxRequestsBound
    /\ time_window \in 1..MaxWindow
    /\ requests = [k \in Keys |-> <<>>]
    /\ clock = 0
    /\ rl_pc = [c \in Callers |-> "ready"]
    /\ rl_key = [c \in Callers |-> "default"]
    /\ rl_now = [c \in Callers |-> 0]
    /\ rl_wake = [c \in Callers |-> 0]
    /\ rl_hist = [c \in Callers |-> NoHist]
    /\ rt_wrapper = "retry_jina_request"
    /\ rt_params = JinaRequestParams
    /\ rt_pc = "acquire"
    /\ attempt = 0
    /\ retry_count = 0
    /\ last_exception = None
    /\ metadata = None
    /\ rt_raised = None
    /\ rt_how = "running"
    /\ rt_calls = 0
    /\ rt_sleeps = <<>>
    /\ rt_seen = {}
    /\ rt_last = None
    /\ DetectIdle
    /\ StreamIdle
    /\ JinaIdle
    /\ DeepResearchIdle

\* the retry locals other than the position
JinaLocals == <<rt_wrapper, rt_params, attempt, retry_count, last_exception,
                metadata, rt_raised, rt_how, rt_calls, rt_sleeps, rt_seen,
                rt_last>>

\* await self.rate_limiter.acquire() (line 406), up to its return or sleep
JinaAcquire ==
    /\ rt_pc = "acquire"
    /\ AcquireEnter("c1", "default")
    /\ acquires' = acquires + 1
    /\ rt_pc' = IF rl_pc'["c1"] = "returned" THEN "attempt" ELSE "acquire"
    /\ UNCHANGED <<JinaLocals, admissions, cdVars, stVars, drVars>>

\* the sleeping acquire of line 406 returns
JinaAcquireWake ==
    /\ rt_pc = "acquire"
    /\ AcquireWake("c1")
    /\ rt_pc' = "attempt"
    /\ UNCHANGED <<JinaLocals, jrVars, cdVars, stVars, drVars>>

\* what one call of _make_request does: it returns the response or raises
\* JinaRetryableError or JinaNonRetryableError, never another exception
\* (lines 351-392)
MakeRequestOutcomes ==
    {o \in Outcomes : o = Success \/ o.cls \in {"Retryable", "NonRetryable"}}

\* one iteration of retry_jina_request: self._make_request sends the HTTP
\* request (lines 408-418, 44-65)
JinaAttempt(o) == RetryJinaRequestAttempt(o) /\ UNCHANGED notRetry

\* the backoff sleep of retry_jina_request is over
JinaBackoffOver == ForLoopContinue /\ UNCHANGED notRetry

JinaTick == Tick /\ UNCHANGED notRateLimiter

\* _make_request_with_retry has returned or raised; the service is called
\* again
JinaNextRequest ==
    /\ rt_pc \in {"returned", "raised"}
    /\ Continue("c1")
    /\ rt_pc' = "acquire"
    /\ attempt' = 0
    /\ last_exception' = None
    /\ rt_raised' = None
    /\ rt_how' = "running"
    /\ rt_calls' = 0
    /\ rt_sleeps' = <<>>
    /\ rt_seen' = {}
    /\ rt_last' = None
    /\ acquires' = 0
    /\ UNCHANGED <<rt_wrapper, rt_params, retry_count, metadata, admissions,
                   cdVars, stVars, drVars>>

NextJinaRequest ==
    \/ JinaAcquire
    \/ JinaAcquireWake
    \/ \E o \in MakeRequestOutcomes : JinaAttempt(o)
    \/ JinaBackoffOver
    \/ JinaTick
    \/ JinaNextRequest

SpecJinaRequest == InitJinaRequest /\ [][NextJinaRequest]_vars

\* C23: every outbound HTTP attempt made through _make_request_with_retry,
\* the first and each retry, is preceded by its own rate-limiter acquire:
\* the request has made at least as many acquire calls as HTTP attempts.
C23_EveryAttemptHasItsOwnAcquire ==
    rt_wrapper = "retry_jina_request" => rt_calls <= acquires

(***************************************************************************)
(* Claims about MetatronAgent._execute_with_retry                          *)
(***************************************************************************)
\* the backoff factors and the fixed maximum delays the sleeps are compared
\* with: a factor greater than 1 and a maximum that lets 1, 2, 4 through
ClaimedFactors == 2..(MaxFactor + 1)
ClaimedMaxDelays == 4..(MaxBaseDelay * Pow(MaxFactor + 1, MaxRetriesBound))

\* C24: _execute_with_retry backs off exponentially with a cap: for some
\* factor greater than 1 and some fixed maximum delay, the sleep before its
\* Nth retry equals min(retry_delay * factor^(N-1), max_delay) (1, 2, 4, ...
\* for retry_delay = 1) and never exceeds that maximum.
C24_ExecuteBacksOffExponentially ==
    rt_wrapper = "_execute_with_retry" =>
        \E f \in ClaimedFactors, cap \in ClaimedMaxDelays :
            \A N \in 1..Len(rt_sleeps) :
                /\ rt_sleeps[N] = Min2(rt_params.retry_delay * Pow(f, N - 1), cap)
                /\ rt_sleeps[N] <= cap

\* C25: in _execute_with_retry an operation that raises an error marked
\* non-retryable is not attempted again: the executor does not sleep after
\* that failure and re-raises it at once, so an operation that always raises
\* it is attempted exactly once with zero sleeps.
C25_ExecuteNonRetryableShortCircuits ==
    (rt_wrapper = "_execute_with_retry" /\ rt_last \in Errors
        /\ rt_last.cls = "NonRetryable")
        => /\ rt_pc = "raised"
           /\ rt_raised = rt_last
           /\ rt_seen = {"NonRetryable"} =>
                 (rt_calls = 1 /\ rt_sleeps = <<>>)

\* C26: when the operation succeeds on some attempt, _execute_with_retry
\* returns with metadata.success = true, metadata.tool_name the given name
\* and metadata.retry_count the number of failed attempts before the success
\* (0 when the first attempt succeeds); the success is the last invocation.
C26_SuccessMetadata ==
    (rt_wrapper = "_execute_with_retry" /\ rt_pc = "returned") =>
        /\ rt_how = "return"
        /\ rt_last = Success
        /\ metadata.cls = "ToolExecutionMetadata"
        /\ metadata.success = TRUE
        /\ metadata.tool_name = rt_params.tool_name
        /\ metadata.retry_count = rt_calls - 1
        /\ metadata.retry_count = Len(rt_sleeps)
        /\ rt_calls = 1 => metadata.retry_count = 0

\* the operation succeeds at the third attempt, after two failures
C26_Witness ==
    /\ rt_wrapper = "_execute_with_retry"
    /\ rt_pc = "returned"
    /\ rt_calls = 3
    /\ rt_seen # {}
    /\ metadata.success = TRUE
    /\ metadata.retry_count = 2

(***************************************************************************)
(* Claims about the classification of errors                               *)
(***************************************************************************)
\* the last invocation failed with an error of class cls while the wrapper
\* still had a retry left
FailedWithRetriesLeft(cls) ==
    /\ rt_last \in Errors
    /\ rt_last.cls = cls
    /\ rt_calls <= rt_params.max_retries

\* C27: an exception that is neither marked retryable nor marked
\* non-retryable is treated as retryable at every classification site: after
\* such a failure retry_with_backoff and retry_jina_request go on to another
\* attempt while retries remain, and do not raise.
C27_UnclassifiedIsRetried ==
    (rt_wrapper \in BackoffWrappers /\ FailedWithRetriesLeft("Other"))
        => rt_pc \in {"sleeping", "attempt"}

\* C28: every failure that _make_request raises as JinaRetryableError is
\* retried by retry_jina_request as long as fewer than max_retries retries
\* have been made, whatever the text of the HTTP response body.
C28_JinaRetryableIsRetried ==
    (rt_wrapper = "retry_jina_request" /\ FailedWithRetriesLeft("Retryable"))
        => rt_pc \in {"sleeping", "attempt"}

(***************************************************************************)
(* Claims about connection failures in /chat                               *)
(***************************************************************************)
\* the last agent run of /chat failed with a ConnectionError or a
\* TimeoutError
ChatConnectionFailure ==
    /\ st_pc \in {"chat_sleeping", "chat_raised", "chat_done"}
    /\ llm_outcome # None
    /\ llm_outcome.kind = "exception"
    /\ llm_outcome.cls \in ConnectionErrors
    /\ ~RateLimited

\* C29: in chat_with_orchestrator a ConnectionError or TimeoutError of the
\* agent run is classified as retryable whatever its message text: it is
\* wrapped as RetryableError, re-attempted until max_retries = 2 is
\* exhausted and then answered with HTTP 503.
C29_ConnectionErrorIsRetryable ==
    ChatConnectionFailure =>
        /\ st_exc.cls = "RetryableError"
        /\ st_pc = "chat_raised" => ch_attempt = ChatMaxRetries
        /\ st_pc = "chat_done" => http.status = 503

(***************************************************************************)
(* The deep_research tool: research_operation (deep_research_tool) run by  *)
(* _execute_with_retry (agent.py lines 321-371)                            *)
(***************************************************************************)
\* the depth argument; "comprehensive" stands for a value outside the table
Depths == {"standard", "deep", "quick", "comprehensive"}

\* what requests.post does: a response with a status code, whose JSON has
\* a non-empty 'choices' or not, a timeout, or another exception
HttpOutcomes ==
    [kind : {"response"}, status : {200, 401, 429, 500}, choices : BOOLEAN,
     text : {""}]
      \cup {[kind |-> "timeout", status |-> 0, choices |-> FALSE, text |-> ""],
            [kind |-> "error", status |-> 0, choices |-> FALSE,
             text |-> "Connection refused"]}

\* reasoning_effort = {...}.get(depth, "medium")
ReasoningEffort(depth) ==
    IF depth = "deep" THEN "high"
    ELSE IF depth = "quick" THEN "low"
    ELSE "medium"

StatusText(status) ==
    IF status = 200 THEN "200" ELSE IF status = 401 THEN "401"
    ELSE IF status = 429 THEN "429" ELSE "500"

Returns(text) == [kind |-> "return", text |-> text]
Raises(cls, text) == [kind |-> "raise", cls |-> cls, text |-> text]

\* the body of the inner try of deep_research_tool (lines 213-330), the
\* pictographs of the texts left out
InnerBody(h, depth) ==
    IF h.kind = "timeout" THEN Raises("Timeout", "")
    ELSE IF h.kind = "error" THEN Raises("ConnectionError", h.text)
    ELSE IF h.status = 200
    THEN IF h.choices
         THEN Returns("Deep Research Results (Reasoning Effort: "
                        \o ReasoningEffort(depth) \o ")")
         ELSE Raises("ValueError", "Invalid response format from Jina API")
    ELSE IF h.status = 401
    THEN Returns("Deep Research failed: Invalid Jina API key. Please check your configuration.")
    ELSE IF h.status = 429
    THEN Returns("Deep Research temporarily unavailable: Rate limit exceeded. Please try again later.")
    ELSE Raises("ValueError", "Jina API error: " \o StatusText(h.status))

\* the inner try with its handlers (lines 213-337)
InnerTry(h, depth) ==
    LET r == InnerBody(h, depth)
    IN IF r.kind = "return" THEN r
       ELSE IF r.cls = "Timeout"
       THEN Returns("Deep Research timeout: The research query is taking longer than expected. Please try a more specific query.")
       ELSE Raises("Exception", "Jina DeepSearch error: " \o r.text)

\* deep_research_tool: the outer try with its handler (lines 205-341)
DeepResearchToolMutReraise(h, depth) == InnerTry(h, depth)
DeepResearchTool(h, depth) ==
    LET r == InnerTry(h, depth)
    IN IF r.kind = "return" THEN r
       ELSE Returns("Deep Research failed: " \o r.text)

\* what the executor sees of a call of research_operation
OperationOutcome(r) ==
    IF r.kind = "return" THEN Success ELSE [cls |-> "Other", msg |-> {}]

\* self._execute_with_retry(research_operation, "deep_research",
\* max_retries=2), retry_delay left at its default 1.0
DeepResearchParams ==
    [max_retries |-> 2, retry_delay |-> 1, tool_name |-> "deep_research"]

InitDeepResearch ==
    /\ dr_pc = "ready"
    /\ dr_args = None
    /\ dr_op = None
    /\ dr_result = None
    /\ dr_calls = 0
    /\ rt_wrapper = "_execute_with_retry"
    /\ rt_params = DeepResearchParams
    /\ rt_pc = "idle"
    /\ attempt = 0
    /\ retry_count = 0
    /\ last_exception = None
    /\ metadata = None
    /\ rt_raised = None
    /\ rt_how = "running"
    /\ rt_calls = 0
    /\ rt_sleeps = <<>>
    /\ rt_seen = {}
    /\ rt_last = None
    /\ RateLimiterIdle
    /\ DetectIdle
    /\ StreamIdle
    /\ JinaIdle

\* the model calls the tool: deep_research enters _execute_with_retry
\* (lines 342-350, 225-226)
DeepResearchCall(depth) ==
    /\ dr_pc = "ready"
    /\ dr_calls < MaxToolCalls
    /\ dr_pc' = "running"
    /\ dr_args' = [depth |-> depth]
    /\ dr_calls' = dr_calls + 1
    /\ rt_pc' = "attempt"
    /\ retry_count' = 0
    /\ last_exception' = None
    /\ metadata' = None
    /\ rt_raised' = None
    /\ rt_how' = "running"
    /\ rt_calls' = 0
    /\ rt_sleeps' = <<>>
    /\ rt_seen' = {}
    /\ rt_last' = None
    /\ UNCHANGED <<rt_wrapper, rt_params, attempt, dr_op, dr_result>>

\* one iteration of the executor's loop around research_operation
DeepResearchAttempt(h) ==
    /\ dr_pc = "running"
    /\ dr_op' = DeepResearchTool(h, dr_args.depth)
    /\ ExecuteWithRetryAttempt(
           OperationOutcome(DeepResearchTool(h, dr_args.depth)))
    /\ UNCHANGED <<dr_pc, dr_args, dr_result, dr_calls>>

\* return enhanced_result (lines 352-367)
DeepResearchReturn ==
    /\ dr_pc = "running"
    /\ rt_pc = "returned"
    /\ dr_result' = [result |-> dr_op.text, depth |-> dr_args.depth,
                     retry_count |-> metadata.retry_count]
    /\ dr_pc' = "ready"
    /\ rt_pc' = "idle"
    /\ UNCHANGED <<rt_wrapper, rt_params, attempt, retry_count, last_exception,
                   metadata, rt_raised, rt_how, rt_calls, rt_sleeps, rt_seen,
                   rt_last, dr_args, dr_op, dr_calls>>

notDeepResearch == <<rlVars, cdVars, stVars, jrVars>>

NextDeepResearch ==
    \/ (\E depth \in Depths : DeepResearchCall(depth))
          /\ UNCHANGED notDeepResearch
    \/ (\E h \in HttpOutcomes : DeepResearchAttempt(h))
          /\ UNCHANGED notDeepResearch
    \/ DeepResearchReturn /\ UNCHANGED notDeepResearch

SpecDeepResearch == InitDeepResearch /\ [][NextDeepResearch]_vars

\* C30: the operation the deep_research tool passes to _execute_with_retry
\* never raises, every failure inside it is returned as a text; hence for
\* every deep_research call the executor makes exactly one attempt, never
\* sleeps, never raises ModelRetry, and the reported retry_count is 0.
C30_DeepResearchNeverRetries ==
    /\ dr_op # None => dr_op.kind = "return"
    /\ rt_seen = {}
    /\ rt_sleeps = <<>>
    /\ rt_pc \notin {"sleeping", "raised"}
    /\ rt_raised = None
    /\ rt_calls <= 1
    /\ rt_pc = "returned" => (rt_calls = 1 /\ metadata.retry_count = 0)
    /\ dr_result # None => dr_result.retry_count = 0

\* a tool call whose HTTP request failed with a connection error has
\* returned the failure as its text
C30_Witness ==
    /\ dr_pc = "ready"
    /\ dr_calls = MaxToolCalls
    /\ dr_op = Returns("Deep Research failed: Jina DeepSearch error: Connection refused")
    /\ dr_result # None
    /\ dr_result.result = dr_op.text
    /\ rt_calls = 1

====
